---- MODULE Spec2Model ----
(***************************************************************************)
(* Model of setup.py, the PhotoRAG bootstrap script: main() checks the     *)
(* marker file and the dependencies, then runs setup_backend,              *)
(* setup_python, setup_frontend and create_env_file, accumulating their    *)
(* results with `success &= step()`.                                       *)
(*                                                                         *)
(* The environment (filesystem, interpreter version, platform, outcome of  *)
(* every external command) is drawn nondeterministically.                  *)
(***************************************************************************)
EXTENDS Integers, Sequences, FiniteSets, TLC

\* ---------------------------------------------------------------- bounds
MaxLen == 2        \* longest .env.example contents (bytes) enumerated
MaxEnvLen == 1     \* longest pre-existing .env contents (bytes) enumerated
MaxRuns == 2       \* successive stand-alone calls of create_env_file

\* ------------------------------------------------------------ file model
\* A byte of a file: an ordinary character, carriage return, line feed, or
\* a byte that is not valid in the encoding open() uses by default.
Bytes == {"a", "CR", "LF", "BAD"}

\* Bytes enumerated for a .env that exists before the run; the script never
\* reads that file, so its bytes are opaque to it.
EnvBytes == {"a", "LF"}

RECURSIVE SeqsUpTo(_, _)
SeqsUpTo(S, n) ==
  IF n = 0 THEN {<<>>}
  ELSE LET shorter == SeqsUpTo(S, n - 1)
       IN  shorter \cup {Append(s, b) : s \in {t \in shorter : Len(t) = n - 1}, b \in S}

Absent == [kind |-> "absent", data |-> <<>>]
Dir == [kind |-> "dir", data |-> <<>>]
File(d) == [kind |-> "file", data |-> d]

\* Path(p).exists()
Exists(f) == f.kind # "absent"

\* ------------------------------------------------------- text-mode I/O
\* open(".env.example", "r").read(): the default newline=None turns "\r\n"
\* and a lone "\r" into "\n".
RECURSIVE UniversalNewlines(_)
UniversalNewlines(d) ==
  IF d = <<>> THEN <<>>
  ELSE IF d[1] = "CR"
       THEN IF Len(d) >= 2 /\ d[2] = "LF"
            THEN <<"LF">> \o UniversalNewlines(SubSeq(d, 3, Len(d)))
            ELSE <<"LF">> \o UniversalNewlines(Tail(d))
       ELSE <<d[1]>> \o UniversalNewlines(Tail(d))

\* read() decodes the whole file; a byte invalid in the encoding raises
\* UnicodeDecodeError.
Decodable(d) == \A i \in 1..Len(d) : d[i] # "BAD"

\* open(".env", "w").write(text): the default newline=None writes "\n" as
\* os.linesep, which is "\r\n" on Windows and "\n" elsewhere.
RECURSIVE WriteText(_, _)
WriteText(t, win) ==
  IF t = <<>> THEN <<>>
  ELSE (IF t[1] = "LF" /\ win THEN <<"CR", "LF">> ELSE <<t[1]>>)
       \o WriteText(Tail(t), win)

\* ------------------------------------------------------ external commands
\* Outcome of subprocess.run: exit status 0, nonzero exit status, or an
\* exception raised by the invocation itself.
CmdResults == {"ok", "nonzero", "raise"}

\* variant: an exception from the invocation counts as success
run_command_Mut(res) ==
  IF res = "raise" THEN TRUE
  ELSE IF res # "ok" THEN FALSE
  ELSE TRUE

\* run_command: True only when the command ran and returned 0.
run_command(res) ==
  IF res = "raise" THEN FALSE
  ELSE IF res # "ok" THEN FALSE
  ELSE TRUE

Cmd(step, cmd, cwd, res) == [step |-> step, cmd |-> cmd, cwd |-> cwd, res |-> res]

NodeVersionCmd == "node --version"
NpmVersionCmd == "npm --version"
NpmInstallCmd == "npm install"
VenvCmd == "python -m venv venv"
PipCmd(win) == IF win THEN "venv\\Scripts\\pip install -r requirements.txt"
               ELSE "venv/bin/pip install -r requirements.txt"
Cwd == "."
BackendDir == "backend"

\* ---------------------------------------------------------- interpreter
PyVersions == {<<2, 7, 18>>, <<3, 7, 9>>, <<3, 8, 0>>, <<3, 12, 1>>}
MinVersion == <<3, 8>>

\* Python tuple ordering: the first differing element decides; if one is a
\* prefix of the other the shorter is smaller.
RECURSIVE TupleLess(_, _)
TupleLess(a, b) ==
  IF b = <<>> THEN FALSE
  ELSE IF a = <<>> THEN TRUE
  ELSE IF a[1] # b[1] THEN a[1] < b[1]
  ELSE TupleLess(Tail(a), Tail(b))


\* ------------------------------------------------------- the functions
\* Each function of setup.py as an operator from the environment it reads
\* to what it returns, the commands it invokes (in order) and the files it
\* leaves behind.

\* variant: the result of `npm --version` is ignored
check_dependencies_Mut(ver, rNode, rNpm) ==
  IF TupleLess(ver, MinVersion)
  THEN [ret |-> FALSE, cmds |-> <<>>]
  ELSE IF ~run_command(rNode)
  THEN [ret |-> FALSE,
        cmds |-> <<Cmd("check_dependencies", NodeVersionCmd, Cwd, rNode)>>]
  ELSE [ret |-> TRUE,
        cmds |-> <<Cmd("check_dependencies", NodeVersionCmd, Cwd, rNode),
                   Cmd("check_dependencies", NpmVersionCmd, Cwd, rNpm)>>]

\* check_dependencies()
check_dependencies(ver, rNode, rNpm) ==
  IF TupleLess(ver, MinVersion)
  THEN [ret |-> FALSE, cmds |-> <<>>]
  ELSE IF ~run_command(rNode)
  THEN [ret |-> FALSE,
        cmds |-> <<Cmd("check_dependencies", NodeVersionCmd, Cwd, rNode)>>]
  ELSE IF ~run_command(rNpm)
  THEN [ret |-> FALSE,
        cmds |-> <<Cmd("check_dependencies", NodeVersionCmd, Cwd, rNode),
                   Cmd("check_dependencies", NpmVersionCmd, Cwd, rNpm)>>]
  ELSE [ret |-> TRUE,
        cmds |-> <<Cmd("check_dependencies", NodeVersionCmd, Cwd, rNode),
                   Cmd("check_dependencies", NpmVersionCmd, Cwd, rNpm)>>]

\* setup_backend()
setup_backend(backendExists, rInstall) ==
  IF ~backendExists
  THEN [ret |-> FALSE, cmds |-> <<>>]
  ELSE [ret |-> run_command(rInstall),
        cmds |-> <<Cmd("setup_backend", NpmInstallCmd, BackendDir, rInstall)>>]

\* variant: the venv is created even when it exists
setup_python_Mut(venvExists, win, rVenv, rPip, venvLeft) ==
  IF ~run_command(rVenv)
  THEN [ret |-> FALSE, venv |-> venvLeft \/ venvExists,
        cmds |-> <<Cmd("setup_python", VenvCmd, Cwd, rVenv)>>]
  ELSE [ret |-> run_command(rPip), venv |-> TRUE,
        cmds |-> <<Cmd("setup_python", VenvCmd, Cwd, rVenv),
                   Cmd("setup_python", PipCmd(win), Cwd, rPip)>>]

\* setup_python(); venvLeft says whether a failed creation command left a
\* venv directory behind.
setup_python(venvExists, win, rVenv, rPip, venvLeft) ==
  IF ~venvExists /\ ~run_command(rVenv)
  THEN [ret |-> FALSE, venv |-> venvLeft,
        cmds |-> <<Cmd("setup_python", VenvCmd, Cwd, rVenv)>>]
  ELSE [ret |-> run_command(rPip), venv |-> TRUE,
        cmds |-> (IF ~venvExists
                  THEN <<Cmd("setup_python", VenvCmd, Cwd, rVenv)>>
                  ELSE <<>>)
                 \o <<Cmd("setup_python", PipCmd(win), Cwd, rPip)>>]

\* variant: `npm install` runs whether or not package.json exists
setup_frontend_Mut(manifestExists, rInstall) ==
  [ret |-> run_command(rInstall),
   cmds |-> <<Cmd("setup_frontend", NpmInstallCmd, Cwd, rInstall)>>]

\* setup_frontend()
setup_frontend(manifestExists, rInstall) ==
  IF manifestExists
  THEN [ret |-> run_command(rInstall),
        cmds |-> <<Cmd("setup_frontend", NpmInstallCmd, Cwd, rInstall)>>]
  ELSE [ret |-> TRUE, cmds |-> <<>>]

\* variant: the template is copied even when .env exists
create_env_file_Overwrite(env, example, win) ==
  IF example.kind = "file" /\ Decodable(example.data)
  THEN [ret |-> "True",
        env |-> File(WriteText(UniversalNewlines(example.data), win))]
  ELSE IF Exists(env) THEN [ret |-> "True", env |-> env]
  ELSE IF Exists(example) THEN [ret |-> "raised", env |-> env]
  ELSE [ret |-> "False", env |-> env]

\* variant: .env is created empty when the template is missing
create_env_file_Touch(env, example, win) ==
  IF ~Exists(env)
  THEN IF example.kind = "file" /\ Decodable(example.data)
       THEN [ret |-> "True",
             env |-> File(WriteText(UniversalNewlines(example.data), win))]
       ELSE IF Exists(example) THEN [ret |-> "raised", env |-> env]
       ELSE [ret |-> "False", env |-> File(<<>>)]
  ELSE [ret |-> "True", env |-> env]

\* create_env_file(); ret is "True", "False", or "raised" when an exception
\* leaves the function (nothing in it or in main() catches one).
create_env_file(env, example, win) ==
  IF ~Exists(env)
  THEN IF Exists(example)
       THEN IF example.kind = "dir"
            \* open(".env.example", "r") raises before .env is opened
            THEN [ret |-> "raised", env |-> env]
            ELSE IF ~Decodable(example.data)
            \* .env was already opened with "w" when src.read() raises
            THEN [ret |-> "raised", env |-> File(<<>>)]
            ELSE [ret |-> "True",
                  env |-> File(WriteText(UniversalNewlines(example.data), win))]
       ELSE [ret |-> "False", env |-> env]
  ELSE [ret |-> "True", env |-> env]

\* variant: the marker file is not tested
in_project_root_Mut(readmeExists) == TRUE

\* main(): the marker-file test
in_project_root(readmeExists) == readmeExists

\* main(): `success &= step()`
Accumulate(acc, r) == acc /\ r

\* variant: a failed step skips the remaining steps
AfterStep_Mut(step, acc) ==
  IF ~acc THEN "final"
  ELSE CASE step = "setup_backend" -> "setup_python"
         [] step = "setup_python" -> "setup_frontend"
         [] step = "setup_frontend" -> "create_env_file"
         [] step = "create_env_file" -> "final"

\* main(): the statement that follows each step; the accumulated flag is
\* not consulted.
AfterStep(step, acc) ==
  CASE step = "setup_backend" -> "setup_python"
    [] step = "setup_python" -> "setup_frontend"
    [] step = "setup_frontend" -> "create_env_file"
    [] step = "create_env_file" -> "final"

\* ------------------------------------------------------------------ state
Steps == {"setup_backend", "setup_python", "setup_frontend", "create_env_file"}
Functions == {"check_dependencies"} \cup Steps

VARIABLES
  pc,         \* position of the run: "main", "check_dependencies", a step,
              \* "final", "done"; "call" in the stand-alone specification
  fs,         \* the working directory
  fs0,        \* the working directory when the run started
  pyVersion,  \* sys.version_info (major, minor, micro)
  win,        \* platform.system() == "Windows"
  log,        \* external commands invoked so far, in order
  ran,        \* setup steps entered so far, in order
  results,    \* what each function returned: "none" until it returns
  success,    \* main()'s accumulated flag
  exitCode,   \* process exit status, -1 while running
  calls       \* one record per create_env_file call: .env before and after

vars == <<pc, fs, fs0, pyVersion, win, log, ran, results, success, exitCode, calls>>

ExampleStates == {Absent, Dir} \cup {File(d) : d \in SeqsUpTo(Bytes, MaxLen)}
EnvStates == {Absent, Dir} \cup {File(d) : d \in SeqsUpTo(EnvBytes, MaxEnvLen)}

FsStates ==
  [readme : BOOLEAN, backend : BOOLEAN, venv : BOOLEAN, manifest : BOOLEAN,
   example : ExampleStates, env : EnvStates]

Init ==
  /\ pc = "main"
  /\ fs \in FsStates
  /\ fs0 = fs
  /\ pyVersion \in PyVersions
  /\ win \in BOOLEAN
  /\ log = <<>>
  /\ ran = <<>>
  /\ results = [f \in Functions |-> "none"]
  /\ success = TRUE
  /\ exitCode = -1
  /\ calls = <<>>

Str(b) == IF b THEN "True" ELSE "False"

\* ---------------------------------------------------------------- actions
\* main(), lines 134-136: not in the project root -> sys.exit(1)
CheckMarker ==
  /\ pc = "main"
  /\ IF in_project_root(fs.readme)
     THEN pc' = "check_dependencies" /\ exitCode' = exitCode
     ELSE pc' = "done" /\ exitCode' = 1
  /\ UNCHANGED <<fs, fs0, pyVersion, win, log, ran, results, success, calls>>

\* main(), lines 139-144: check_dependencies(); failure -> sys.exit(1)
CheckDependencies ==
  /\ pc = "check_dependencies"
  /\ \E rNode \in CmdResults, rNpm \in CmdResults :
       LET r == check_dependencies(pyVersion, rNode, rNpm) IN
       /\ log' = log \o r.cmds
       /\ results' = [results EXCEPT !["check_dependencies"] = Str(r.ret)]
       /\ IF r.ret
          THEN pc' = "setup_backend" /\ exitCode' = exitCode
          ELSE pc' = "done" /\ exitCode' = 1
  /\ success' = TRUE
  /\ UNCHANGED <<fs, fs0, pyVersion, win, ran, calls>>

\* main(), line 145
SetupBackend ==
  /\ pc = "setup_backend"
  /\ \E rInstall \in CmdResults :
       LET r == setup_backend(fs.backend, rInstall) IN
       /\ log' = log \o r.cmds
       /\ results' = [results EXCEPT !["setup_backend"] = Str(r.ret)]
       /\ success' = Accumulate(success, r.ret)
  /\ ran' = Append(ran, "setup_backend")
  /\ pc' = AfterStep("setup_backend", success')
  /\ UNCHANGED <<fs, fs0, pyVersion, win, exitCode, calls>>

\* main(), line 146
SetupPython ==
  /\ pc = "setup_python"
  /\ \E rVenv \in CmdResults, rPip \in CmdResults, venvLeft \in BOOLEAN :
       LET r == setup_python(fs.venv, win, rVenv, rPip, venvLeft) IN
       /\ log' = log \o r.cmds
       /\ fs' = [fs EXCEPT !.venv = r.venv]
       /\ results' = [results EXCEPT !["setup_python"] = Str(r.ret)]
       /\ success' = Accumulate(success, r.ret)
  /\ ran' = Append(ran, "setup_python")
  /\ pc' = AfterStep("setup_python", success')
  /\ UNCHANGED <<fs0, pyVersion, win, exitCode, calls>>

\* main(), line 147
SetupFrontend ==
  /\ pc = "setup_frontend"
  /\ \E rInstall \in CmdResults :
       LET r == setup_frontend(fs.manifest, rInstall) IN
       /\ log' = log \o r.cmds
       /\ results' = [results EXCEPT !["setup_frontend"] = Str(r.ret)]
       /\ success' = Accumulate(success, r.ret)
  /\ ran' = Append(ran, "setup_frontend")
  /\ pc' = AfterStep("setup_frontend", success')
  /\ UNCHANGED <<fs, fs0, pyVersion, win, exitCode, calls>>

\* main(), line 148; an exception out of create_env_file ends the process
\* with a traceback and exit status 1, `success` not updated.
CreateEnvFile ==
  /\ pc = "create_env_file"
  /\ LET r == create_env_file(fs.env, fs.example, win) IN
       /\ fs' = [fs EXCEPT !.env = r.env]
       /\ calls' = Append(calls, [before |-> fs.env, after |-> r.env, ret |-> r.ret])
       /\ results' = [results EXCEPT !["create_env_file"] = r.ret]
       /\ IF r.ret = "raised"
          THEN /\ success' = success
               /\ pc' = "done"
               /\ exitCode' = 1
          ELSE /\ success' = Accumulate(success, r.ret = "True")
               /\ pc' = AfterStep("create_env_file", success')
               /\ exitCode' = exitCode
  /\ ran' = Append(ran, "create_env_file")
  /\ UNCHANGED <<fs0, pyVersion, win, log>>

\* main(), lines 150-159: falls off the end (status 0) or sys.exit(1)
Finish ==
  /\ pc = "final"
  /\ pc' = "done"
  /\ exitCode' = IF success THEN 0 ELSE 1
  /\ UNCHANGED <<fs, fs0, pyVersion, win, log, ran, results, success, calls>>

Next ==
  \/ CheckMarker
  \/ CheckDependencies
  \/ SetupBackend
  \/ SetupPython
  \/ SetupFrontend
  \/ CreateEnvFile
  \/ Finish

Spec == Init /\ [][Next]_vars

\* ------------------------------------------------ create_env_file alone
\* create_env_file() called repeatedly on an arbitrary working directory.
InitCalls ==
  /\ pc = "call"
  /\ \E ex \in ExampleStates, en \in EnvStates :
       fs = [readme |-> TRUE, backend |-> FALSE, venv |-> FALSE,
             manifest |-> FALSE, example |-> ex, env |-> en]
  /\ fs0 = fs
  /\ pyVersion = <<3, 8, 0>>
  /\ win \in BOOLEAN
  /\ log = <<>>
  /\ ran = <<>>
  /\ results = [f \in Functions |-> "none"]
  /\ success = TRUE
  /\ exitCode = -1
  /\ calls = <<>>

CreateEnvFileCall ==
  /\ pc = "call"
  /\ Len(calls) < MaxRuns
  /\ LET r == create_env_file(fs.env, fs.example, win) IN
       /\ fs' = [fs EXCEPT !.env = r.env]
       /\ calls' = Append(calls, [before |-> fs.env, after |-> r.env, ret |-> r.ret])
       /\ results' = [results EXCEPT !["create_env_file"] = r.ret]
  /\ ran' = Append(ran, "create_env_file")
  /\ UNCHANGED <<pc, fs0, pyVersion, win, log, success, exitCode>>

NextCalls == CreateEnvFileCall

SpecCalls == InitCalls /\ [][NextCalls]_vars


\* ------------------------------------------------------------ properties
StepOrder == <<"setup_backend", "setup_python", "setup_frontend", "create_env_file">>

\* the commands a function invoked, in order
CmdsOf(f) == SelectSeq(log, LAMBDA c : c.step = f)

\* how many times a function invoked a command line
Count(f, cmd) == Cardinality({i \in 1..Len(log) : log[i].step = f /\ log[i].cmd = cmd})

NoStepRan ==
  /\ ran = <<>>
  /\ \A s \in Steps : results[s] = "none"
  /\ \A i \in 1..Len(log) : log[i].step \notin Steps
  /\ calls = <<>>
  /\ fs = fs0

PassedChecks == fs0.readme /\ results["check_dependencies"] = "True"

\* C1: when README.md is absent the only thing the run does is exit with
\* status 1: no setup step runs and no external command, version checks
\* included, is invoked.
C1_MarkerAbsentExits ==
  ~fs0.readme =>
    /\ pc \in {"main", "done"}
    /\ pc = "done" => exitCode = 1
    /\ NoStepRan
    /\ log = <<>>
    /\ results["check_dependencies"] = "none"

C1_Witness == ~fs0.readme /\ pc = "done" /\ exitCode = 1

\* C2: with README.md present, an interpreter older than 3.8 or a failing
\* `node --version` or `npm --version` makes the run exit with status 1
\* before any setup step, and neither version check is invoked twice.
VersionCheckFailed ==
  \/ pyVersion[1] < 3
  \/ pyVersion[1] = 3 /\ pyVersion[2] < 8
  \/ \E i \in 1..Len(log) :
       /\ log[i].cmd \in {NodeVersionCmd, NpmVersionCmd}
       /\ log[i].res # "ok"

C2_DependencyFailureExits ==
  (fs0.readme /\ pc \notin {"main", "check_dependencies"}) =>
    /\ Count("check_dependencies", NodeVersionCmd) <= 1
    /\ Count("check_dependencies", NpmVersionCmd) <= 1
    /\ VersionCheckFailed =>
         /\ pc = "done"
         /\ exitCode = 1
         /\ results["check_dependencies"] = "False"
         /\ NoStepRan

C2_Witness ==
  /\ fs0.readme /\ pc = "done" /\ exitCode = 1
  /\ Len(log) = 2
  /\ log[1].cmd = NodeVersionCmd /\ log[1].res = "ok"
  /\ log[2].cmd = NpmVersionCmd /\ log[2].res = "raise"
  /\ ran = <<>>

\* C3: in a run that passed both checks, the accumulated flag is true iff
\* all four steps returned true, and the exit status is 0 exactly when the
\* flag is true and 1 otherwise.
C3_OutcomeIsConjunction ==
  (PassedChecks /\ pc = "done") =>
    /\ success <=> (\A s \in Steps : results[s] = "True")
    /\ exitCode \in {0, 1}
    /\ exitCode = 0 <=> success

\* C4: in a run that passed both checks the four steps run once each in
\* the order backend, python, frontend, env file, whatever the earlier
\* steps returned.
C4_AllStepsInOrder ==
  /\ Len(ran) <= 4
  /\ ran = SubSeq(StepOrder, 1, Len(ran))
  /\ (PassedChecks /\ pc \in Steps) => StepOrder[Len(ran) + 1] = pc
  /\ (PassedChecks /\ pc \in {"final", "done"}) => ran = StepOrder

C4_Witness ==
  /\ pc = "done"
  /\ results["setup_backend"] = "False"
  /\ results["setup_python"] = "False"
  /\ results["setup_frontend"] = "False"
  /\ ran = StepOrder

\* C5: create_env_file is idempotent: every later call leaves .env as the
\* first call left it, and a call that finds .env present leaves it as it
\* was and returns true.
C5_CreateEnvIdempotent ==
  /\ \A i \in 1..Len(calls) :
       /\ calls[i].after = calls[1].after
       /\ Exists(calls[i].before) =>
            calls[i].after = calls[i].before /\ calls[i].ret = "True"
  /\ calls # <<>> => fs.env = calls[Len(calls)].after

C5_Witness ==
  /\ Len(calls) = 2
  /\ calls[1].before = Absent
  /\ calls[1].after.kind = "file"
  /\ calls[1].after.data # <<>>
  /\ calls[2].ret = "True"

\* C6: when create_env_file runs with both .env.example and .env absent it
\* returns false and .env is still absent afterwards.
C6_NoTemplateFails ==
  \A i \in 1..Len(calls) :
    (~Exists(fs0.example) /\ ~Exists(calls[i].before)) =>
      /\ calls[i].ret = "False"
      /\ ~Exists(calls[i].after)
      /\ i = Len(calls) => ~Exists(fs.env)

C6_Witness ==
  /\ calls # <<>>
  /\ ~Exists(fs0.example)
  /\ ~Exists(calls[1].before)
  /\ calls[1].ret = "False"

\* C7: setup_frontend returns true without invoking any command when
\* package.json is absent; with package.json present it invokes
\* `npm install` once in the working directory and returns that command's
\* success.
C7_FrontendManifest ==
  LET cs == CmdsOf("setup_frontend") IN
  IF results["setup_frontend"] = "none"
  THEN cs = <<>>
  ELSE IF ~fs0.manifest
       THEN cs = <<>> /\ results["setup_frontend"] = "True"
       ELSE /\ Len(cs) = 1
            /\ cs[1].cmd = NpmInstallCmd
            /\ cs[1].cwd = Cwd
            /\ results["setup_frontend"] = Str(cs[1].res = "ok")

C7_Witness ==
  /\ ~fs0.manifest
  /\ results["setup_frontend"] = "True"
  /\ results["setup_backend"] = "False"

\* C8: end to end, with README.md present, the checks passing, backend/
\* present and its install exiting 0, the requirements install succeeding,
\* no package.json, .env.example a file and .env absent: all four steps
\* return true, .env ends with exactly the bytes of .env.example, and the
\* exit status is 0.
C8_Scenario ==
  /\ PassedChecks
  /\ fs0.backend
  /\ \E i \in 1..Len(log) :
       log[i].step = "setup_backend" /\ log[i].cmd = NpmInstallCmd /\ log[i].res = "ok"
  /\ \E i \in 1..Len(log) :
       log[i].step = "setup_python" /\ log[i].cmd = PipCmd(win) /\ log[i].res = "ok"
  /\ ~fs0.manifest
  /\ fs0.example.kind = "file"
  /\ fs0.env = Absent

C8_EndToEnd ==
  (C8_Scenario /\ pc = "done") =>
    /\ \A s \in Steps : results[s] = "True"
    /\ fs.env = fs0.example
    /\ exitCode = 0

\* C9: setup_python invokes the venv-creation command iff venv/ was absent
\* when the step started; pip runs exactly once when venv/ was there or
\* its creation succeeded, and the step returns pip's success; when the
\* creation fails pip is not invoked and the step returns false.
C9_PythonEnvironment ==
  LET cs == CmdsOf("setup_python")
      nVenv == Count("setup_python", VenvCmd)
      nPip == Count("setup_python", "venv/bin/pip install -r requirements.txt")
              + Count("setup_python", "venv\\Scripts\\pip install -r requirements.txt")
  IN
  IF results["setup_python"] = "none"
  THEN cs = <<>>
  ELSE /\ Len(cs) = nVenv + nPip
       /\ nVenv = (IF fs0.venv THEN 0 ELSE 1)
       /\ nVenv = 1 => cs[1].cmd = VenvCmd /\ cs[1].cwd = Cwd
       /\ IF fs0.venv \/ cs[1].res = "ok"
          THEN /\ nPip = 1
               /\ cs[Len(cs)].cwd = Cwd
               /\ results["setup_python"] = Str(cs[Len(cs)].res = "ok")
          ELSE /\ nPip = 0
               /\ results["setup_python"] = "False"

C9_Witness ==
  /\ ~fs0.venv
  /\ results["setup_python"] = "False"
  /\ Len(CmdsOf("setup_python")) = 1
  /\ CmdsOf("setup_python")[1].res = "nonzero"

\* C10: setup_backend returns false without invoking any command when
\* backend/ does not exist; otherwise it invokes `npm install` once with
\* backend/ as working directory and returns true iff that command exited
\* 0, a nonzero exit and an exception both counting as failure.
C10_Backend ==
  LET cs == CmdsOf("setup_backend") IN
  IF results["setup_backend"] = "none"
  THEN cs = <<>>
  ELSE IF ~fs0.backend
       THEN cs = <<>> /\ results["setup_backend"] = "False"
       ELSE /\ Len(cs) = 1
            /\ cs[1].cmd = NpmInstallCmd
            /\ cs[1].cwd = BackendDir
            /\ results["setup_backend"] = "True" <=> cs[1].res = "ok"
            /\ cs[1].res \in {"nonzero", "raise"} => results["setup_backend"] = "False"

C10_Witness ==
  /\ fs0.backend
  /\ results["setup_backend"] = "False"
  /\ Len(CmdsOf("setup_backend")) = 1
  /\ CmdsOf("setup_backend")[1].res = "raise"

====
